---- MODULE Spec2Model ----
(***************************************************************************)
(* A model of the penny_ante roulette engine: the rule set (BettingRules), *)
(* the bet value object (Bet), the players' chip stacks (Player, Chips)    *)
(* and the round state machine of the table (Game).                        *)
(*                                                                         *)
(* Seven specifications are given. Spec is the Game state machine: callers *)
(* build Bet objects and call place_bet, close_betting, open_betting,      *)
(* spin_wheel, add_player and Player.buy_chips in any order.  SpecRules    *)
(* holds a Game still and applies the pure queries of BettingRules and Bet *)
(* and the Bet constructor to inputs drawn from bounded sets.  SpecConfig  *)
(* constructs a BettingRules object from a base file and an overlay.       *)
(* SpecBet asks is_winning_bet and calculate_payout of bets the            *)
(* constructor built, for every pocket of the wheel.  SpecChips applies    *)
(* change_chips and add_chips to a pair of Chips stacks.                   *)
(* SpecPlayer registers players and lets them buy chips of any value.      *)
(* SpecRace runs two callers of place_bet, as one step each or with the    *)
(* checks and the append as separate steps.                                *)
(***************************************************************************)
EXTENDS Integers, Sequences, FiniteSets, TLC

VARIABLES
    betting_rules,  \* Game.betting_rules: the rule set the table owns
    other_rules,    \* a second BettingRules object a caller may attach to a Bet
    players,        \* Game.players: name -> Player.chips
    active_bets,    \* Game.active_bets: the list of pending Bet objects
    betting_open,   \* Game.betting_open
    current_space,  \* Game.current_space (table.wheel.current_space)
    bet,            \* the Bet object the caller holds (or NoBet)
    last,           \* history: the last call and how it ended
    query,          \* history: the last pure query and its result
    load,           \* a BettingRules construction: its inputs and its outcome
    chip_stack,     \* a Chips object on its own, and how the last call on it ended
    threads         \* callers inside place_bet: their positions and their bets

vars == <<betting_rules, other_rules, players, active_bets, betting_open,
          current_space, bet, last, query, load, chip_stack, threads>>

\* what the Game and the rule-set queries leave alone
aside == <<load, chip_stack, threads>>

gameVars == <<players, active_bets, betting_open, current_space, bet, last>>

-----------------------------------------------------------------------------
(* Bounds of the model *)

\* largest amount a caller passes to the Bet constructor
MaxAmount == 2

\* largest number of chips a player buys in one call, and holds
MaxChips == 1

\* longest list of pending bets explored
MaxActive == 2

\* largest amount the pure queries are asked about
MaxQueryAmount == 6

\* the most chips a lone Chips stack is followed up to
MaxStack == 3

\* the most bets of a batch handed to validate_multiple_bets
MaxBatch == 2

-----------------------------------------------------------------------------
(* Program constants *)

\* table_limits.get('minimum_bet', 1)
DefaultTableMinimum == 1

\* table_limits.get('maximum_bet', 1000000)
DefaultTableMaximum == 1000000

\* table_limits.get('maximum_total_bet', 10000000)
DefaultMaximumTotalBet == 10000000

-----------------------------------------------------------------------------
(* BetType *)

InsideBets == {"straight_up", "split", "street", "corner", "six_line"}

OutsideBets == {"red", "black", "odd", "even", "high", "low",
                "first_dozen", "second_dozen", "third_dozen",
                "first_column", "second_column", "third_column"}

BetType == InsideBets \cup OutsideBets

-----------------------------------------------------------------------------
(* Python values *)

None == "None"

\* A ratio of a configuration file is a float; the model holds it as the
\* fraction num/den.  Every ratio used below has a power of two as den, or
\* gives an exact product with the table limits used, so that the float
\* product table_limit * ratio of the code is the exact product.
Ratio(n, d) == [num |-> n, den |-> d]

\* int(x) of a float x = n/d (d > 0): truncation toward zero
PyInt(n, d) == IF n >= 0 THEN n \div d ELSE -((-n) \div d)

\* dict.get(key, default)
DictGet(dict, key, default) == IF key \in DOMAIN dict THEN dict[key] ELSE default

\* sum(b.amount for b in bets)
RECURSIVE SumAmounts(_)
SumAmounts(bets) ==
    IF bets = <<>> THEN 0 ELSE Head(bets).amount + SumAmounts(Tail(bets))

\* An exception (or the normal return) of a call: the message and the numbers
\* formatted into it.
Raise(msg, args) == [msg |-> msg, args |-> args]

Ok == [msg |-> "ok", args |-> <<>>]

\* the message of the aggregate-limit error of place_bet
AggregateLimitError == "Adding this bet would exceed maximum total bet limit"

\* the message of the error for a kind the rules do not offer
NotOfferedError == "Bet type is not allowed on this table"

\* the message of the error for an amount outside the limits of the kind
OutOfRangeError == "Bet amount is outside allowed range"

-----------------------------------------------------------------------------
(* BettingRules: queries *)

get_maximum_total_bet_of_one_bet(rules) ==
    DictGet(rules.table_limits, "maximum_bet", DefaultTableMaximum)

get_maximum_total_bet(rules) ==
    DictGet(rules.table_limits, "maximum_total_bet", DefaultMaximumTotalBet)

get_table_minimum(rules) ==
    DictGet(rules.table_limits, "minimum_bet", DefaultTableMinimum)

get_table_maximum(rules) ==
    DictGet(rules.table_limits, "maximum_bet", DefaultTableMaximum)

is_bet_allowed(rules, bet_type) == bet_type \in DOMAIN rules.payout_ratios

\* Raises ValueError when the kind has no payout ratio.
get_payout_ratio(rules, bet_type) ==
    IF bet_type \notin DOMAIN rules.payout_ratios
    THEN [raised |-> TRUE, value |-> 0]
    ELSE [raised |-> FALSE, value |-> rules.payout_ratios[bet_type]]

get_minimum_bet_no_global(rules, bet_type) ==
    LET table_minimum == DictGet(rules.table_limits, "minimum_bet", DefaultTableMinimum)
        ratio == IF bet_type \in DOMAIN rules.minimum_bet_ratios
                 THEN rules.minimum_bet_ratios[bet_type]
                 ELSE Ratio(1, 1)
    IN  PyInt(table_minimum * ratio.num, ratio.den)

get_minimum_bet(rules, bet_type) ==
    LET table_minimum == DictGet(rules.table_limits, "minimum_bet", DefaultTableMinimum)
        ratio == IF bet_type \in DOMAIN rules.minimum_bet_ratios
                 THEN rules.minimum_bet_ratios[bet_type]
                 ELSE IF "global" \in DOMAIN rules.minimum_bet_ratios
                 THEN rules.minimum_bet_ratios["global"]
                 ELSE Ratio(1, 1)
    IN  PyInt(table_minimum * ratio.num, ratio.den)

get_maximum_bet(rules, bet_type) ==
    LET table_maximum == DictGet(rules.table_limits, "maximum_bet", DefaultTableMaximum)
        ratio == IF bet_type \in DOMAIN rules.maximum_bet_ratios
                 THEN rules.maximum_bet_ratios[bet_type]
                 ELSE IF "global" \in DOMAIN rules.maximum_bet_ratios
                 THEN rules.maximum_bet_ratios["global"]
                 ELSE Ratio(1, 1)
    IN  PyInt(table_maximum * ratio.num, ratio.den)

validate_bet_amount_strict(rules, bet_type, amount) ==
    get_minimum_bet(rules, bet_type) < amount
        /\ amount <= get_maximum_bet(rules, bet_type)

validate_bet_amount(rules, bet_type, amount) ==
    get_minimum_bet(rules, bet_type) <= amount
        /\ amount <= get_maximum_bet(rules, bet_type)

\* round(n/d, 0) of Python for d > 0: to the nearest integer, a tie to the
\* even one
RoundHalfEven(n, d) ==
    LET q == n \div d
        r == n % d
    IN  IF 2 * r > d \/ (2 * r = d /\ q % 2 = 1) THEN q + 1 ELSE q

total_pockets_always_american(table_type) == 38

\* _calculate_house_edge, line 305
total_pockets(table_type) == IF table_type = "EUROPEAN" THEN 37 ELSE 38

\* BettingRules._get_winning_outcomes, for the kinds of BetType
get_winning_outcomes(bet_type) ==
    IF bet_type = "straight_up" THEN 1
    ELSE IF bet_type = "split" THEN 2
    ELSE IF bet_type = "street" THEN 3
    ELSE IF bet_type = "corner" THEN 4
    ELSE IF bet_type = "six_line" THEN 6
    ELSE IF bet_type \in {"red", "black"} THEN 18
    ELSE IF bet_type \in {"odd", "even"} THEN 18
    ELSE IF bet_type \in {"high", "low"} THEN 18
    ELSE IF bet_type \in {"first_dozen", "second_dozen", "third_dozen"} THEN 12
    ELSE 12

\* BettingRules.get_house_edge: raises when the kind has no payout ratio; the
\* value is the percentage in hundredths (526 for 5.26).  The float
\* round((1 - outcomes / pockets * (payout + 1)) * 100, 2) is the nearest
\* hundredth of the exact quotient: with 37 or 38 pockets the quotient is never
\* within float error of a tie.
get_house_edge(rules, bet_type) ==
    LET pockets == total_pockets(rules.table_type)
        payout == get_payout_ratio(rules, bet_type)
        outcomes == get_winning_outcomes(bet_type)
    IN  IF payout.raised
        THEN [raised |-> TRUE, value |-> 0]
        ELSE [raised |-> FALSE,
              value |-> RoundHalfEven(
                            10000 * (pockets - outcomes * (payout.value + 1)),
                            pockets)]

-----------------------------------------------------------------------------
(* Rule sets: the configurations a BettingRules object is built from.       *)
(* The limits are those of the test configurations scaled down; the ratios  *)
(* are non-negative, as are the table limits.                               *)

EmptyDict == [k \in {} |-> 0]

\* Bet.PAYOUT_RATIOS and BettingRules.create_default_config: the default table
DefaultPayouts ==
    [straight_up |-> 35, split |-> 17, street |-> 11, corner |-> 8, six_line |-> 5,
     red |-> 1, black |-> 1, odd |-> 1, even |-> 1, high |-> 1, low |-> 1,
     first_dozen |-> 2, second_dozen |-> 2, third_dozen |-> 2,
     first_column |-> 2, second_column |-> 2, third_column |-> 2]

\* the strict table of the enforcement tests
StrictPayouts ==
    [straight_up |-> 35, split |-> 17, red |-> 1, black |-> 1, first_dozen |-> 2]

\* the table that does not offer black
LimitedPayouts == [straight_up |-> 35, red |-> 1]

PayoutChoices == {DefaultPayouts, StrictPayouts, LimitedPayouts}

MinimumRatioChoices ==
    { EmptyDict,
      [global |-> Ratio(1, 2)],
      [global |-> Ratio(1, 1), straight_up |-> Ratio(1, 1), red |-> Ratio(2, 1)],
      [global |-> Ratio(5, 2), red |-> Ratio(3, 1)] }

MaximumRatioChoices ==
    { EmptyDict,
      [global |-> Ratio(1, 1), straight_up |-> Ratio(1, 2), red |-> Ratio(1, 2)],
      [global |-> Ratio(1, 2), red |-> Ratio(2, 1)] }

TableLimitChoices ==
    { [minimum_bet |-> 1, maximum_bet |-> 2, maximum_total_bet |-> 2],
      [minimum_bet |-> 2, maximum_bet |-> 5, maximum_total_bet |-> 7],
      [maximum_total_bet |-> 5] }

TableTypes == {"AMERICAN", "EUROPEAN"}

\* Every BettingRules object of the bounded configuration space
RuleSets ==
    [table_type : TableTypes,
     payout_ratios : PayoutChoices,
     minimum_bet_ratios : MinimumRatioChoices,
     maximum_bet_ratios : MaximumRatioChoices,
     table_limits : TableLimitChoices]

\* black in [1, 1], straight_up in [1, 1], red in [2, 4]; at most 2 per round
StrictRules ==
    [table_type |-> "AMERICAN",
     payout_ratios |-> StrictPayouts,
     minimum_bet_ratios |->
        [global |-> Ratio(1, 1), straight_up |-> Ratio(1, 1), red |-> Ratio(2, 1)],
     maximum_bet_ratios |-> [global |-> Ratio(1, 2), red |-> Ratio(2, 1)],
     table_limits |-> [minimum_bet |-> 1, maximum_bet |-> 2, maximum_total_bet |-> 2]]

\* black is not offered; every offered kind in [0, 2]; at most 2 per round
LimitedRules ==
    [table_type |-> "EUROPEAN",
     payout_ratios |-> LimitedPayouts,
     minimum_bet_ratios |-> [global |-> Ratio(1, 2)],
     maximum_bet_ratios |-> EmptyDict,
     table_limits |-> [minimum_bet |-> 1, maximum_bet |-> 2, maximum_total_bet |-> 2]]

\* every kind offered, in [1, 2]; at most 7 per round
OpenRules ==
    [table_type |-> "AMERICAN",
     payout_ratios |-> DefaultPayouts,
     minimum_bet_ratios |-> EmptyDict,
     maximum_bet_ratios |-> EmptyDict,
     table_limits |-> [minimum_bet |-> 1, maximum_bet |-> 2, maximum_total_bet |-> 7]]

\* the rule sets a Game of the state machine is created with
GameRuleSets == {StrictRules, LimitedRules}

-----------------------------------------------------------------------------
(* Layout *)

NumStr ==
    <<"1", "2", "3", "4", "5", "6", "7", "8", "9", "10", "11", "12",
      "13", "14", "15", "16", "17", "18", "19", "20", "21", "22", "23", "24",
      "25", "26", "27", "28", "29", "30", "31", "32", "33", "34", "35", "36">>

\* Layout.lookup: the keys of value_lookup
LayoutLookup(table_type) ==
    (IF table_type = "AMERICAN" THEN {"0", "00"} ELSE {"0"})
        \cup {NumStr[i] : i \in 1..36}

-----------------------------------------------------------------------------
(* Bet *)

NoBet == [bet_type |-> None, spaces |-> {}, amount |-> 0, betting_rules |-> None]

\* A Bet holds a reference to a BettingRules object: the Game's ("game"),
\* another one ("other"), or None.
Deref(ref) == IF ref = "game" THEN betting_rules ELSE other_rules

Bet_validate_bet_type_matches_spaces(bet_type, spaces) ==
    IF bet_type = "straight_up" /\ Cardinality(spaces) # 1
    THEN Raise("Straight up bet must cover exactly one space", <<>>)
    ELSE IF bet_type = "split" /\ Cardinality(spaces) # 2
    THEN Raise("Split bet must cover exactly two spaces", <<>>)
    ELSE IF bet_type = "street" /\ Cardinality(spaces) # 3
    THEN Raise("Street bet must cover exactly three spaces", <<>>)
    ELSE IF bet_type = "corner" /\ Cardinality(spaces) # 4
    THEN Raise("Corner bet must cover exactly four spaces", <<>>)
    ELSE IF bet_type = "six_line" /\ Cardinality(spaces) # 6
    THEN Raise("Six line bet must cover exactly six spaces", <<>>)
    ELSE Ok

Bet_validate_bet_lookup_only(bet_type, spaces, amount, lookup) ==
    IF amount <= 0
    THEN Raise("Bet amount must be positive", <<>>)
    ELSE IF \E space_value \in spaces : space_value \notin lookup
    THEN Raise("Invalid space value", <<>>)
    ELSE Bet_validate_bet_type_matches_spaces(bet_type, spaces)

\* Bet._validate_bet
Bet_validate_bet(bet_type, spaces, amount, lookup) ==
    IF amount <= 0
    THEN Raise("Bet amount must be positive", <<>>)
    ELSE IF \E space_value \in spaces :
                space_value \notin lookup /\ space_value \notin {"0", "00"}
    THEN Raise("Invalid space value", <<>>)
    ELSE Bet_validate_bet_type_matches_spaces(bet_type, spaces)

\* Bet._validate_betting_rules of a bet whose betting_rules is `rules`
Bet_validate_betting_rules(bet_type, amount, rules) ==
    IF ~is_bet_allowed(rules, bet_type)
    THEN Raise(NotOfferedError, <<>>)
    ELSE IF ~validate_bet_amount(rules, bet_type, amount)
    THEN Raise(OutOfRangeError,
               <<amount, get_minimum_bet(rules, bet_type),
                 get_maximum_bet(rules, bet_type)>>)
    ELSE Ok

\* Bet.__init__: the exception raised, or Ok and the object built.  `layout`
\* is TRUE when the table's layout is passed, `rules_ref` the reference passed
\* as betting_rules.
Bet_init(bet_type, spaces, amount, layout, rules_ref) ==
    LET made == [bet_type |-> bet_type, spaces |-> spaces, amount |-> amount,
                 betting_rules |-> rules_ref]
        shape == IF layout
                 THEN Bet_validate_bet(bet_type, spaces, amount,
                                       LayoutLookup(betting_rules.table_type))
                 ELSE Ok
        ruled == IF rules_ref # None
                 THEN Bet_validate_betting_rules(bet_type, amount, Deref(rules_ref))
                 ELSE Ok
    IN  IF shape # Ok THEN [raised |-> shape, obj |-> NoBet]
        ELSE IF ruled # Ok THEN [raised |-> ruled, obj |-> NoBet]
        ELSE [raised |-> Ok, obj |-> made]

-----------------------------------------------------------------------------
(* Chips and Player *)

\* Player.chips of a player who never bought chips
NoChips == [held |-> FALSE, count |-> 0, value |-> 0]

\* `if player.chips`: a Chips object is truthy
HasChips(chips) == chips.held

\* Chips.change_chips(count=count) on a stack whose value is set: the
\* exception raised, or Ok and the new stack
Chips_change_chips(chips, count) ==
    IF chips.count + count < 0
    THEN [raised |-> Raise("There are not enough chips available", <<>>),
          chips |-> chips]
    ELSE [raised |-> Ok, chips |-> [chips EXCEPT !.count = @ + count]]

\* Player.buy_chips(count, value)
Player_buy_chips(chips, count, value) ==
    LET stack == IF chips = NoChips
                 THEN [held |-> TRUE, count |-> 0, value |-> value]
                 ELSE chips
    IN  Chips_change_chips(stack, count)

\* Player.can_afford_bet(amount)
can_afford_bet(chips, amount) ==
    IF chips = NoChips THEN FALSE ELSE chips.count >= amount

-----------------------------------------------------------------------------
(* BettingRules.validate_multiple_bets: the batch validator of a rule set.  *)
(* A bet fails when its amount is not positive, its kind is not offered or  *)
(* its amount is outside the kind's range; the batch fails when a bet fails *)
(* or the total exceeds the ceiling.                                        *)

BetFails(rules, b) ==
    \/ b.amount <= 0
    \/ ~is_bet_allowed(rules, b.bet_type)
    \/ ~validate_bet_amount(rules, b.bet_type, b.amount)

validate_multiple_bets(rules, bets) ==
    LET failing == {i \in 1..Len(bets) : BetFails(rules, bets[i])}
        total == SumAmounts(bets)
    IN  [valid |-> failing = {} /\ total <= get_maximum_total_bet(rules),
         bet_count |-> Len(bets),
         total_amount |-> total,
         bet_type_counts |->
            [k \in {bets[i].bet_type : i \in 1..Len(bets)} |->
                Cardinality({i \in 1..Len(bets) : bets[i].bet_type = k})],
         errors |-> Cardinality(failing)]

-----------------------------------------------------------------------------
(* Game *)

PlayerNames == {"Alice", "Bob"}

\* the chip values a player buys chips with
ChipValues == {1}

\* the amounts a caller builds a Bet with
Amounts == 0..MaxAmount

\* the kinds of the bets built at the table
PlacedKinds == {"black"}

\* the covered spaces of the bets built at the table
PlacedSpaces == {{"17"}}

\* the pockets the wheel is seen to land on
SpinOutcomes(table_type) ==
    IF table_type = "AMERICAN" THEN {"00"} ELSE {"0"}

\* The record of a call: `player` is the player_name passed to place_bet,
\* `valid` the "valid" entry of the validation result close_betting returns.
Call(op, player, raised, valid) ==
    [op |-> op, player |-> player, raised |-> raised, valid |-> valid]

\* place_bet, lines 139-141: a bet without rules gets the Game's and is
\* validated against them; a bet that has rules is not validated.
place_bet_validate(b) ==
    IF b.betting_rules = None
    THEN [bet |-> [b EXCEPT !.betting_rules = "game"],
          raised |-> Bet_validate_betting_rules(b.bet_type, b.amount, betting_rules)]
    ELSE [bet |-> b, raised |-> Ok]

\* place_bet, lines 144-146
insufficient_chips(player_name, amount) ==
    /\ player_name # None
    /\ player_name \in DOMAIN players
    /\ HasChips(players[player_name])
    /\ players[player_name].count < amount

exceeds_total_off_by_one(amount) ==
    SumAmounts(active_bets) + amount >= get_maximum_total_bet(betting_rules)

exceeds_total_never(amount) == FALSE

\* place_bet, lines 152-153
exceeds_total(amount) ==
    SumAmounts(active_bets) + amount > get_maximum_total_bet(betting_rules)

deduct_chips_never(player_name, amount) == players

\* place_bet, lines 162-165: the players after the chips are deducted
deduct_chips(player_name, amount) ==
    IF player_name # None /\ player_name \in DOMAIN players
          /\ HasChips(players[player_name])
    THEN [players EXCEPT
            ![player_name] = Chips_change_chips(@, -amount).chips]
    ELSE players

betting_closed_never == FALSE

\* place_bet, line 135
betting_closed == ~betting_open

place_bet_append_before_check(b, player_name) ==
    LET checked == place_bet_validate(b)
        same == [bet |-> b, active_bets |-> active_bets, players |-> players]
    IN  IF betting_closed
        THEN [raised |-> Raise("Betting is closed", <<>>)] @@ same
        ELSE IF checked.raised # Ok
        THEN [raised |-> checked.raised] @@ [same EXCEPT !.bet = checked.bet]
        ELSE IF insufficient_chips(player_name, b.amount)
        THEN [raised |-> Raise("Player has insufficient chips",
                               <<players[player_name].count, b.amount>>)]
                @@ [same EXCEPT !.bet = checked.bet]
        ELSE IF exceeds_total(b.amount)
        THEN [raised |-> Raise(AggregateLimitError,
                               <<get_maximum_total_bet(betting_rules)>>)]
                @@ [same EXCEPT !.bet = checked.bet,
                                !.active_bets = Append(active_bets, checked.bet)]
        ELSE [raised |-> Ok,
              bet |-> checked.bet,
              active_bets |-> Append(active_bets, checked.bet),
              players |-> deduct_chips(player_name, b.amount)]

\* Game.place_bet(bet, player_name): the exception raised or Ok, and the bet
\* object, the pending bets and the players after the call
place_bet(b, player_name) ==
    LET checked == place_bet_validate(b)
        same == [bet |-> b, active_bets |-> active_bets, players |-> players]
    IN  IF betting_closed
        THEN [raised |-> Raise("Betting is closed", <<>>)] @@ same
        ELSE IF checked.raised # Ok
        THEN [raised |-> checked.raised] @@ [same EXCEPT !.bet = checked.bet]
        ELSE IF insufficient_chips(player_name, b.amount)
        THEN [raised |-> Raise("Player has insufficient chips",
                               <<players[player_name].count, b.amount>>)]
                @@ [same EXCEPT !.bet = checked.bet]
        ELSE IF exceeds_total(b.amount)
        THEN [raised |-> Raise(AggregateLimitError,
                               <<get_maximum_total_bet(betting_rules)>>)]
                @@ [same EXCEPT !.bet = checked.bet]
        ELSE [raised |-> Ok,
              bet |-> checked.bet,
              active_bets |-> Append(active_bets, checked.bet),
              players |-> deduct_chips(player_name, b.amount)]

add_player_replacing(player_name) ==
    [raised |-> Ok,
     players |-> [n \in DOMAIN players \cup {player_name} |->
                    IF n = player_name THEN NoChips ELSE players[n]]]

\* Game.add_player: the exception raised, or Ok, and the players afterwards
add_player(player_name) ==
    IF player_name \in DOMAIN players
    THEN [raised |-> Raise("Multiple players of the same name are not allowed.", <<>>),
          players |-> players]
    ELSE [raised |-> Ok,
          players |-> (player_name :> NoChips) @@ players]

\* Game.validate_all_bets
validate_all_bets == validate_multiple_bets(betting_rules, active_bets)

close_betting_voiding_bets ==
    [betting_open |-> FALSE,
     active_bets |-> IF validate_all_bets.valid THEN active_bets ELSE <<>>,
     result |-> validate_all_bets]

\* Game.close_betting: the phase and the pending bets after the call, and the
\* validation result returned
close_betting ==
    [betting_open |-> FALSE,
     active_bets |-> active_bets,
     result |-> validate_all_bets]

spin_wheel_unvalidated ==
    [raised |-> Ok,
     betting_open |-> IF betting_open THEN close_betting.betting_open
                      ELSE betting_open,
     active_bets |-> IF betting_open THEN close_betting.active_bets
                     ELSE active_bets,
     spun |-> TRUE]

\* Game.spin_wheel: the exception raised, or Ok, the phase and the pending
\* bets after the call, and whether the croupier spun the wheel
spin_wheel ==
    IF betting_open
    THEN IF ~close_betting.result.valid
         THEN [raised |-> Raise("Cannot spin wheel: Invalid bets detected", <<>>),
               betting_open |-> close_betting.betting_open,
               active_bets |-> close_betting.active_bets,
               spun |-> FALSE]
         ELSE [raised |-> Ok,
               betting_open |-> close_betting.betting_open,
               active_bets |-> close_betting.active_bets,
               spun |-> TRUE]
    ELSE [raised |-> Ok,
          betting_open |-> betting_open,
          active_bets |-> active_bets,
          spun |-> TRUE]

open_betting_keeps_bets == [betting_open |-> TRUE, active_bets |-> active_bets]

\* Game.open_betting: the phase and the pending bets after the call
open_betting == [betting_open |-> TRUE, active_bets |-> <<>>]

-----------------------------------------------------------------------------
(* The Game state machine *)

\* The record of a pure query: its inputs, and the number returned (value),
\* the boolean returned (flag) or the exception raised.
Query(op, bet_type, amount, spaces, layout, rules_ref, value, flag, raised) ==
    [op |-> op, bet_type |-> bet_type, amount |-> amount, spaces |-> spaces,
     layout |-> layout, rules_ref |-> rules_ref,
     value |-> value, flag |-> flag, raised |-> raised]

NoQuery == Query(None, None, 0, {}, FALSE, None, 0, FALSE, Ok)

\* no BettingRules construction is being followed
NoLoad == [phase |-> "none"]

\* no lone Chips object is being followed
NoStack == [phase |-> "none"]

\* no caller is followed inside place_bet
NoThreads == [mode |-> "none"]

\* Game.__init__
Init ==
    /\ betting_rules \in GameRuleSets
    /\ other_rules = OpenRules
    /\ players = EmptyDict
    /\ active_bets = <<>>
    /\ betting_open = TRUE
    /\ current_space = None
    /\ bet = NoBet
    /\ last = Call("Game", None, Ok, TRUE)
    /\ query = NoQuery
    /\ load = NoLoad
    /\ chip_stack = NoStack
    /\ threads = NoThreads

\* A caller builds a Bet; when the constructor raises, the caller keeps the
\* object it held.
NewBet ==
    \E bet_type \in PlacedKinds, spaces \in PlacedSpaces, amount \in Amounts,
       layout \in BOOLEAN, rules_ref \in {None, "game", "other"} :
        LET r == Bet_init(bet_type, spaces, amount, layout, rules_ref)
        IN  /\ bet' = IF r.raised = Ok THEN r.obj ELSE bet
            /\ last' = Call("Bet", None, r.raised, TRUE)
            /\ UNCHANGED <<betting_rules, other_rules, players, active_bets,
                           betting_open, current_space, query, aside>>

PlaceBet ==
    \E player_name \in PlayerNames \cup {None} :
        /\ bet # NoBet
        /\ LET r == place_bet(bet, player_name)
           IN  /\ Len(r.active_bets) <= MaxActive
               /\ bet' = r.bet
               /\ active_bets' = r.active_bets
               /\ players' = r.players
               /\ last' = Call("place_bet", player_name, r.raised, TRUE)
        /\ UNCHANGED <<betting_rules, other_rules, betting_open, current_space, query, aside>>

CloseBetting ==
    /\ betting_open' = close_betting.betting_open
    /\ active_bets' = close_betting.active_bets
    /\ last' = Call("close_betting", None, Ok, close_betting.result.valid)
    /\ UNCHANGED <<betting_rules, other_rules, players,
                   current_space, bet, query, aside>>

OpenBetting ==
    /\ betting_open' = open_betting.betting_open
    /\ active_bets' = open_betting.active_bets
    /\ last' = Call("open_betting", None, Ok, TRUE)
    /\ UNCHANGED <<betting_rules, other_rules, players, current_space, bet, query, aside>>

\* Game.spin_wheel: closes betting when it is open and raises when the
\* pending bets are invalid; else the wheel lands on a pocket.
SpinWheel ==
    /\ betting_open' = spin_wheel.betting_open
    /\ active_bets' = spin_wheel.active_bets
    /\ IF spin_wheel.spun
       THEN \E pocket \in SpinOutcomes(betting_rules.table_type) :
                current_space' = pocket
       ELSE current_space' = current_space
    /\ last' = Call("spin_wheel", None, spin_wheel.raised, spin_wheel.raised = Ok)
    /\ UNCHANGED <<betting_rules, other_rules, players, bet, query, aside>>

AddPlayer ==
    \E player_name \in PlayerNames :
        /\ players' = add_player(player_name).players
        /\ last' = Call("add_player", player_name, add_player(player_name).raised, TRUE)
        /\ UNCHANGED <<betting_rules, other_rules, active_bets, betting_open,
                       current_space, bet, query, aside>>

\* Player.buy_chips on a registered player
BuyChips ==
    \E player_name \in DOMAIN players, count \in (-1)..MaxChips, value \in ChipValues :
        LET r == Player_buy_chips(players[player_name], count, value)
        IN  /\ r.chips.count <= MaxChips
            /\ players' = [players EXCEPT ![player_name] = r.chips]
            /\ last' = Call("buy_chips", None, r.raised, TRUE)
            /\ UNCHANGED <<betting_rules, other_rules, active_bets, betting_open,
                           current_space, bet, query, aside>>

Next ==
    \/ NewBet
    \/ PlaceBet
    \/ CloseBetting
    \/ OpenBetting
    \/ SpinWheel
    \/ AddPlayer
    \/ BuyChips

Spec == Init /\ [][Next]_vars

-----------------------------------------------------------------------------
(* The pure queries of a rule set and the Bet constructor, applied to a     *)
(* Game that is otherwise left alone                                        *)

\* the amounts the queries are asked about
QueryAmounts == (-1)..MaxQueryAmount

\* the kinds and covered spaces the constructor is called with
BuiltKinds == {"straight_up", "black"}

BuiltSpaces == {{"17"}, {"17", "18"}, {"99"}, {"00"}, {"0", "17"}, {"00", "99"}}

\* The queries change nothing of the rule set or the Game, so each behaviour
\* asks one (query = NoQuery): the answer to a second query is the answer it
\* gets as the first.
InitRules ==
    /\ betting_rules \in RuleSets
    /\ other_rules = OpenRules
    /\ players = EmptyDict
    /\ active_bets = <<>>
    /\ betting_open = TRUE
    /\ current_space = None
    /\ bet = NoBet
    /\ last = Call("Game", None, Ok, TRUE)
    /\ query = NoQuery
    /\ load = NoLoad
    /\ chip_stack = NoStack
    /\ threads = NoThreads

AskMinimumBet ==
    \E bet_type \in BetType :
        /\ query = NoQuery
        /\ query' = Query("get_minimum_bet", bet_type, 0, {}, FALSE, "game",
                          get_minimum_bet(betting_rules, bet_type), FALSE, Ok)
        /\ UNCHANGED <<betting_rules, other_rules, gameVars, aside>>

AskMaximumBet ==
    \E bet_type \in BetType :
        /\ query = NoQuery
        /\ query' = Query("get_maximum_bet", bet_type, 0, {}, FALSE, "game",
                          get_maximum_bet(betting_rules, bet_type), FALSE, Ok)
        /\ UNCHANGED <<betting_rules, other_rules, gameVars, aside>>

AskValidateBetAmount ==
    \E bet_type \in BetType, amount \in QueryAmounts :
        /\ query = NoQuery
        /\ query' = Query("validate_bet_amount", bet_type, amount, {}, FALSE, "game",
                          0, validate_bet_amount(betting_rules, bet_type, amount), Ok)
        /\ UNCHANGED <<betting_rules, other_rules, gameVars, aside>>

AskIsBetAllowed ==
    \E bet_type \in BetType :
        /\ query = NoQuery
        /\ query' = Query("is_bet_allowed", bet_type, 0, {}, FALSE, "game",
                          0, is_bet_allowed(betting_rules, bet_type), Ok)
        /\ UNCHANGED <<betting_rules, other_rules, gameVars, aside>>

AskPayoutRatio ==
    \E bet_type \in BetType :
        LET r == get_payout_ratio(betting_rules, bet_type)
        IN  /\ query = NoQuery
            /\ query' = Query("get_payout_ratio", bet_type, 0, {}, FALSE, "game",
                              r.value, FALSE,
                              IF r.raised
                              THEN Raise("No payout ratio configured for bet type", <<>>)
                              ELSE Ok)
            /\ UNCHANGED <<betting_rules, other_rules, gameVars, aside>>

AskHouseEdge ==
    \E bet_type \in BetType :
        LET r == get_house_edge(betting_rules, bet_type)
        IN  /\ query = NoQuery
            /\ query' = Query("get_house_edge", bet_type, 0, {}, FALSE, "game",
                              r.value, FALSE,
                              IF r.raised
                              THEN Raise("No payout ratio configured for bet type", <<>>)
                              ELSE Ok)
            /\ UNCHANGED <<betting_rules, other_rules, gameVars, aside>>

BuildBet ==
    \E bet_type \in BuiltKinds, spaces \in BuiltSpaces, amount \in QueryAmounts,
       layout \in BOOLEAN, rules_ref \in {None, "game"} :
        /\ query = NoQuery
        /\ query' = Query("Bet", bet_type, amount, spaces, layout, rules_ref, 0, FALSE,
                          Bet_init(bet_type, spaces, amount, layout, rules_ref).raised)
        /\ UNCHANGED <<betting_rules, other_rules, gameVars, aside>>

\* the amounts of the bets of a batch
BatchAmounts == {0, 1, 3, 4}

\* the bets of a batch: built by the constructor without a layout or rules,
\* which accepts any amount
BatchBets ==
    {Bet_init(bet_type, {"17"}, amount, FALSE, None).obj :
        bet_type \in BuiltKinds, amount \in BatchAmounts}

\* the batches: every list of at most MaxBatch bets
Batches == UNION {[1..n -> BatchBets] : n \in 0..MaxBatch}

\* The record of a batch validation: the batch and the result returned.
BatchQuery(bets, result) ==
    [op |-> "validate_multiple_bets", bets |-> bets, result |-> result]

AskValidateMultipleBets ==
    /\ query = NoQuery
    /\ \E bets \in Batches :
          query' = BatchQuery(bets, validate_multiple_bets(betting_rules, bets))
    /\ UNCHANGED <<betting_rules, other_rules, gameVars, aside>>

NextRules ==
    \/ AskMinimumBet
    \/ AskMaximumBet
    \/ AskValidateBetAmount
    \/ AskIsBetAllowed
    \/ AskPayoutRatio
    \/ AskHouseEdge
    \/ AskValidateMultipleBets
    \/ BuildBet

SpecRules == InitRules /\ [][NextRules]_vars

-----------------------------------------------------------------------------
(* The wheel and the outcome of a bet *)

\* Wheel.__create_american_wheel: the numbers after "0" and after "00"
AmericanValues ==
    << <<28, 9, 26, 30, 11, 7, 20, 32, 17, 5, 22, 34, 15, 3, 24, 36, 13, 1>>,
       <<27, 10, 25, 29, 12, 8, 19, 31, 18, 6, 21, 33, 16, 4, 23, 35, 14, 2>> >>

\* Wheel.__create_european_wheel: the numbers after "0"
EuropeanValues ==
    <<32, 15, 19, 4, 21, 2, 25, 17, 34, 6, 27, 13, 36, 11, 30, 8, 23, 10,
      5, 24, 16, 33, 1, 20, 14, 31, 9, 22, 18, 29, 7, 28, 12, 35, 3, 26>>

\* Space(location, value, color)
Space(value, color) == [value |-> value, color |-> color]

\* colors[location % 2] with colors = ["RED", "BLACK"]
AmericanColor(location) == IF location % 2 = 0 THEN "RED" ELSE "BLACK"

\* colors[location % 2] with colors = ["BLACK", "RED"]
EuropeanColor(location) == IF location % 2 = 0 THEN "BLACK" ELSE "RED"

\* Wheel.spaces
WheelSpaces(table_type) ==
    IF table_type = "AMERICAN"
    THEN {Space("0", "GREEN"), Space("00", "GREEN")}
            \cup {Space(NumStr[AmericanValues[1][i]], AmericanColor(i)) : i \in 1..18}
            \cup {Space(NumStr[AmericanValues[2][i]], AmericanColor(19 + i)) : i \in 1..18}
    ELSE {Space("0", "GREEN")}
            \cup {Space(NumStr[EuropeanValues[i]], EuropeanColor(i)) : i \in 1..36}

\* int(winning_value) of a pocket: "0" and "00" are digit strings, of value 0
PocketInt(value) ==
    IF value \in {"0", "00"} THEN 0 ELSE CHOOSE n \in 1..36 : NumStr[n] = value

\* Bet.is_winning_bet
is_winning_bet(b, winning_space) ==
    LET n == PocketInt(winning_space.value)
    IN  IF winning_space.value \in b.spaces THEN TRUE
        ELSE IF b.bet_type = "red" THEN winning_space.color = "RED"
        ELSE IF b.bet_type = "black" THEN winning_space.color = "BLACK"
        ELSE IF b.bet_type = "odd" THEN n > 0 /\ n % 2 = 1
        ELSE IF b.bet_type = "even" THEN n > 0 /\ n % 2 = 0
        ELSE IF b.bet_type = "high" THEN 19 <= n /\ n <= 36
        ELSE IF b.bet_type = "low" THEN 1 <= n /\ n <= 18
        ELSE IF b.bet_type = "first_dozen" THEN 1 <= n /\ n <= 12
        ELSE IF b.bet_type = "second_dozen" THEN 13 <= n /\ n <= 24
        ELSE IF b.bet_type = "third_dozen" THEN 25 <= n /\ n <= 36
        ELSE IF b.bet_type = "first_column"
        THEN n \in {1, 4, 7, 10, 13, 16, 19, 22, 25, 28, 31, 34}
        ELSE IF b.bet_type = "second_column"
        THEN n \in {2, 5, 8, 11, 14, 17, 20, 23, 26, 29, 32, 35}
        ELSE IF b.bet_type = "third_column"
        THEN n \in {3, 6, 9, 12, 15, 18, 21, 24, 27, 30, 33, 36}
        ELSE FALSE

calculate_payout_default_ratio(b, winning_space) ==
    IF ~is_winning_bet(b, winning_space) THEN 0
    ELSE b.amount + b.amount * DefaultPayouts[b.bet_type]

\* Bet.calculate_payout
calculate_payout(b, winning_space) ==
    LET rules == Deref(b.betting_rules)
        payout_ratio ==
            IF b.betting_rules # None
            THEN IF get_payout_ratio(rules, b.bet_type).raised
                 THEN DefaultPayouts[b.bet_type]
                 ELSE get_payout_ratio(rules, b.bet_type).value
            ELSE DefaultPayouts[b.bet_type]
    IN  IF ~is_winning_bet(b, winning_space) THEN 0
        ELSE b.amount + b.amount * payout_ratio

\* The record of a query on a Bet object: the bet, the pocket the ball landed
\* on, and the boolean (flag) or number (value) returned.
BetQuery(op, b, winning_space, flag, value) ==
    [op |-> op, bet |-> b, winning_space |-> winning_space,
     flag |-> flag, value |-> value]

\* a table that pays 40 on a straight-up and 2 on red, and does not offer the
\* columns
CustomPayouts ==
    [straight_up |-> 40, split |-> 17, street |-> 11, corner |-> 8, six_line |-> 5,
     red |-> 2, black |-> 1, odd |-> 1, even |-> 1, high |-> 1, low |-> 1,
     first_dozen |-> 2, second_dozen |-> 2, third_dozen |-> 3]

\* the rule sets of the tables the outcomes are asked at
OutcomeRuleSets ==
    [table_type : TableTypes,
     payout_ratios : {DefaultPayouts, CustomPayouts},
     minimum_bet_ratios : {EmptyDict},
     maximum_bet_ratios : {EmptyDict},
     table_limits : {[minimum_bet |-> 1, maximum_bet |-> 1000,
                      maximum_total_bet |-> 2000]}]

\* the stakes of the bets whose outcome is asked
Stakes == {1, 10}

\* the spaces the caller passes for those bets
OutcomeSpaces == {{}, {"0"}, {"00"}, {"17"}, {"17", "18"}}

InitBet ==
    /\ betting_rules \in OutcomeRuleSets
    /\ other_rules = OpenRules
    /\ players = EmptyDict
    /\ active_bets = <<>>
    /\ betting_open = TRUE
    /\ current_space = None
    /\ bet = NoBet
    /\ last = Call("Game", None, Ok, TRUE)
    /\ query = NoQuery
    /\ load = NoLoad
    /\ chip_stack = NoStack
    /\ threads = NoThreads

\* is_winning_bet of a Bet the constructor has built
AskIsWinningBet ==
    /\ query = NoQuery
    /\ \E bet_type \in BetType, spaces \in OutcomeSpaces, amount \in Stakes,
          layout \in BOOLEAN, rules_ref \in {None, "game"},
          winning_space \in WheelSpaces(betting_rules.table_type) :
        LET r == Bet_init(bet_type, spaces, amount, layout, rules_ref)
        IN  /\ r.raised = Ok
            /\ query' = BetQuery("is_winning_bet", r.obj, winning_space,
                                 is_winning_bet(r.obj, winning_space), 0)
            /\ UNCHANGED <<betting_rules, other_rules, gameVars, aside>>

\* calculate_payout of a Bet the constructor has built
AskCalculatePayout ==
    /\ query = NoQuery
    /\ \E bet_type \in BetType, spaces \in OutcomeSpaces, amount \in Stakes,
          layout \in BOOLEAN, rules_ref \in {None, "game"},
          winning_space \in WheelSpaces(betting_rules.table_type) :
        LET r == Bet_init(bet_type, spaces, amount, layout, rules_ref)
        IN  /\ r.raised = Ok
            /\ query' = BetQuery("calculate_payout", r.obj, winning_space,
                                 is_winning_bet(r.obj, winning_space),
                                 calculate_payout(r.obj, winning_space))
            /\ UNCHANGED <<betting_rules, other_rules, gameVars, aside>>

NextBet ==
    \/ AskIsWinningBet
    \/ AskCalculatePayout

SpecBet == InitBet /\ [][NextBet]_vars

-----------------------------------------------------------------------------
(* Construction of a BettingRules object from a configuration file and an   *)
(* overlay.  A document maps section names to values; a value is a dict     *)
(* (with its items) or a scalar.  The items are opaque numbers here.        *)

RequiredSections ==
    {"payout_ratios", "minimum_bet_ratios", "maximum_bet_ratios", "table_limits"}

Sections == RequiredSections \cup {"game_rules"}

\* isinstance(value, dict) is value.dict
DictValue(items) == [dict |-> TRUE, items |-> items]

ScalarValue == [dict |-> FALSE, items |-> EmptyDict]

\* what a base file holds in each section it has
BaseSection ==
    [payout_ratios |-> DictValue([straight_up |-> 35, red |-> 1]),
     minimum_bet_ratios |-> DictValue([global |-> 1]),
     maximum_bet_ratios |-> DictValue([global |-> 1]),
     table_limits |-> DictValue([minimum_bet |-> 1, maximum_bet |-> 1000]),
     game_rules |-> DictValue([en_prison |-> 0])]

\* the dict an overlay holds in a section it names with a dict
OverlaySection ==
    [payout_ratios |-> DictValue([straight_up |-> 40]),
     minimum_bet_ratios |-> DictValue([red |-> 2]),
     maximum_bet_ratios |-> DictValue([global |-> 2]),
     table_limits |-> DictValue([maximum_bet |-> 500, maximum_total_bet |-> 2000]),
     game_rules |-> DictValue([surrender |-> 1])]

\* the keys of the sections
SectionKeys ==
    {"straight_up", "red", "global", "minimum_bet", "maximum_bet",
     "maximum_total_bet", "en_prison", "surrender"}

\* The files: one that does not exist, and one for each set of sections (the
\* file without sections is the empty file).
ConfigFiles ==
    {[exists |-> FALSE, doc |-> EmptyDict]}
        \cup {[exists |-> TRUE, doc |-> [s \in S |-> BaseSection[s]]] :
                S \in SUBSET Sections}

\* The overlays: None, and the dicts that name a set of sections, each with a
\* dict or with a scalar.
Overlays ==
    {[given |-> FALSE, doc |-> EmptyDict]}
        \cup {[given |-> TRUE,
               doc |-> [s \in S |-> IF s \in D THEN OverlaySection[s]
                                                ELSE ScalarValue]] :
                S \in SUBSET Sections, D \in SUBSET Sections}

validate_config_never(config) == Ok

\* BettingRules._validate_config
validate_config(config) ==
    IF \E section \in RequiredSections : section \notin DOMAIN config
    THEN Raise("Missing required configuration sections", <<>>)
    ELSE Ok

\* BettingRules._load_config: the exception raised, or Ok and the document
load_config(file) ==
    IF ~file.exists
    THEN [raised |-> Raise("Configuration file not found", <<>>), config |-> EmptyDict]
    ELSE IF DOMAIN file.doc = {}
    THEN [raised |-> Raise("Configuration file is empty or invalid", <<>>),
          config |-> EmptyDict]
    ELSE IF validate_config(file.doc) # Ok
    THEN [raised |-> validate_config(file.doc), config |-> EmptyDict]
    ELSE [raised |-> Ok, config |-> file.doc]

\* dict.update
DictUpdate(dict, other) ==
    [k \in DOMAIN dict \cup DOMAIN other |->
        IF k \in DOMAIN other THEN other[k] ELSE dict[k]]

apply_overlay_replacing_sections(base_config, overlay_config) ==
    DictUpdate(base_config, overlay_config)

\* BettingRules._apply_overlay
apply_overlay(base_config, overlay_config) ==
    [section_name \in DOMAIN base_config \cup DOMAIN overlay_config |->
        IF section_name \notin DOMAIN overlay_config
        THEN base_config[section_name]
        ELSE IF overlay_config[section_name].dict
                    /\ section_name \in DOMAIN base_config
        THEN IF base_config[section_name].dict
             THEN DictValue(DictUpdate(base_config[section_name].items,
                                       overlay_config[section_name].items))
             ELSE overlay_config[section_name]
        ELSE overlay_config[section_name]]

\* BettingRules.__init__(config_path, table_type, overlay_config): the
\* exception raised, or Ok and self.config.  An overlay that is None or {} is
\* not applied.
BettingRules_init(file, overlay) ==
    LET loaded == load_config(file)
        merged == IF overlay.given /\ DOMAIN overlay.doc # {}
                  THEN apply_overlay(loaded.config, overlay.doc)
                  ELSE loaded.config
    IN  IF loaded.raised # Ok
        THEN [raised |-> loaded.raised, config |-> EmptyDict]
        ELSE IF validate_config(merged) # Ok
        THEN [raised |-> validate_config(merged), config |-> EmptyDict]
        ELSE [raised |-> Ok, config |-> merged]

\* A caller is about to construct a BettingRules object.
InitConfig ==
    /\ betting_rules = OpenRules
    /\ other_rules = OpenRules
    /\ players = EmptyDict
    /\ active_bets = <<>>
    /\ betting_open = TRUE
    /\ current_space = None
    /\ bet = NoBet
    /\ last = Call("Game", None, Ok, TRUE)
    /\ query = NoQuery
    /\ chip_stack = NoStack
    /\ threads = NoThreads
    /\ \E file \in ConfigFiles, overlay \in Overlays :
            load = [phase |-> "inputs", file |-> file, overlay |-> overlay,
                    raised |-> Ok, config |-> EmptyDict]

Construct ==
    /\ load.phase = "inputs"
    /\ LET r == BettingRules_init(load.file, load.overlay)
       IN  load' = [load EXCEPT !.phase = IF r.raised = Ok THEN "built" ELSE "failed",
                                !.raised = r.raised,
                                !.config = r.config]
    /\ UNCHANGED <<betting_rules, other_rules, gameVars, query, chip_stack, threads>>

NextConfig == Construct

SpecConfig == InitConfig /\ [][NextConfig]_vars

-----------------------------------------------------------------------------
(* A Chips stack on its own: change_chips with every combination of its     *)
(* optional arguments, and add_chips.  Two stacks are followed so that one  *)
(* can be merged into the other.                                            *)

\* an Optional[int] argument or attribute: {} is None, {x} is x
Optional(S) == {{}} \cup {{x} : x \in S}

Some(o) == CHOOSE x \in o : TRUE

\* Chips.__init__
Chips_init(value) == [count |-> 0, value |-> value]

change_chips_unchecked(self, count, value, chips) ==
    IF chips # {}
    THEN IF self.value # Some(chips).value
         THEN [raised |-> Raise("To change chip stacks, the chip values must be the same.",
                                <<>>),
               self |-> self]
         ELSE [raised |-> Ok,
               self |-> [self EXCEPT !.count = @ + Some(chips).count]]
    ELSE IF value = {} /\ self.value = {}
    THEN [raised |-> Raise("Chip value must be set when adding chips for the first time.",
                           <<>>),
          self |-> self]
    ELSE IF value # {} /\ self.value # {}
    THEN [raised |-> Raise("Chip Value cannot be changed after the chips have been established.",
                           <<>>),
          self |-> self]
    ELSE [raised |-> Ok,
          self |-> [count |-> IF count # {} THEN self.count + Some(count)
                              ELSE self.count,
                    value |-> IF value # {} THEN value ELSE self.value]]

change_chips_revalue(self, count, value, chips) ==
    IF chips # {}
    THEN IF self.value # Some(chips).value
         THEN [raised |-> Raise("To change chip stacks, the chip values must be the same.",
                                <<>>),
               self |-> self]
         ELSE [raised |-> Ok,
               self |-> [self EXCEPT !.count = @ + Some(chips).count]]
    ELSE IF count # {} /\ self.count + Some(count) < 0
    THEN [raised |-> Raise("There are not enough chips available", <<>>),
          self |-> self]
    ELSE IF value = {} /\ self.value = {}
    THEN [raised |-> Raise("Chip value must be set when adding chips for the first time.",
                           <<>>),
          self |-> self]
    ELSE [raised |-> Ok,
          self |-> [count |-> IF count # {} THEN self.count + Some(count)
                              ELSE self.count,
                    value |-> IF value # {} THEN value ELSE self.value]]

\* Chips.change_chips(count, value, chips): the exception raised, or Ok, and
\* the stack afterwards
change_chips(self, count, value, chips) ==
    IF chips # {}
    THEN IF self.value # Some(chips).value
         THEN [raised |-> Raise("To change chip stacks, the chip values must be the same.",
                                <<>>),
               self |-> self]
         ELSE [raised |-> Ok,
               self |-> [self EXCEPT !.count = @ + Some(chips).count]]
    ELSE IF count # {} /\ self.count + Some(count) < 0
    THEN [raised |-> Raise("There are not enough chips available", <<>>),
          self |-> self]
    ELSE IF value = {} /\ self.value = {}
    THEN [raised |-> Raise("Chip value must be set when adding chips for the first time.",
                           <<>>),
          self |-> self]
    ELSE IF value # {} /\ self.value # {}
    THEN [raised |-> Raise("Chip Value cannot be changed after the chips have been established.",
                           <<>>),
          self |-> self]
    ELSE [raised |-> Ok,
          self |-> [count |-> IF count # {} THEN self.count + Some(count)
                              ELSE self.count,
                    value |-> IF value # {} THEN value ELSE self.value]]

\* Chips.add_chips(count, value)
add_chips(self, count, value) == change_chips(self, {count}, value, {})

\* the two stacks
StackNames == {"mine", "theirs"}

\* the chip values the stacks are built and changed with
Denominations == {1, 5}

\* the counts passed to change_chips and add_chips
CountChanges == (-2)..2

\* the record of a call on a stack
StackCall(op, target, count, value, merged, raised) ==
    [op |-> op, target |-> target, count |-> count, value |-> value,
     merged |-> merged, raised |-> raised]

InitChips ==
    /\ betting_rules = OpenRules
    /\ other_rules = OpenRules
    /\ players = EmptyDict
    /\ active_bets = <<>>
    /\ betting_open = TRUE
    /\ current_space = None
    /\ bet = NoBet
    /\ last = Call("Game", None, Ok, TRUE)
    /\ query = NoQuery
    /\ load = NoLoad
    /\ threads = NoThreads
    /\ \E stacks \in [StackNames -> {Chips_init(v) : v \in Optional(Denominations)}] :
          chip_stack = [phase |-> "stacks", stacks |-> stacks,
                        call |-> StackCall("Chips", None, {}, {}, FALSE, Ok)]

\* change_chips on one stack; `merged` passes the other stack as chips
ChangeChips ==
    \E target \in StackNames, count \in Optional(CountChanges),
       value \in Optional(Denominations), merged \in BOOLEAN :
        LET other == CHOOSE n \in StackNames : n # target
            chips == IF merged THEN {chip_stack.stacks[other]} ELSE {}
            r == change_chips(chip_stack.stacks[target], count, value, chips)
        IN  /\ r.self.count <= MaxStack
            /\ chip_stack' =
                  [chip_stack EXCEPT
                     !.stacks[target] = r.self,
                     !.call = StackCall("change_chips", target, count, value,
                                        merged, r.raised)]
            /\ UNCHANGED <<betting_rules, other_rules, gameVars, query, load, threads>>

\* add_chips on one stack
AddChips ==
    \E target \in StackNames, count \in CountChanges,
       value \in Optional(Denominations) :
        LET r == add_chips(chip_stack.stacks[target], count, value)
        IN  /\ r.self.count <= MaxStack
            /\ chip_stack' =
                  [chip_stack EXCEPT
                     !.stacks[target] = r.self,
                     !.call = StackCall("add_chips", target, {count}, value,
                                        FALSE, r.raised)]
            /\ UNCHANGED <<betting_rules, other_rules, gameVars, query, load, threads>>

NextChips ==
    \/ ChangeChips
    \/ AddChips

SpecChips == InitChips /\ [][NextChips]_vars

-----------------------------------------------------------------------------
(* The players of a Game buying chips of any denomination *)

\* the counts passed to buy_chips
BoughtCounts == (-1)..2

\* Player.buy_chips on a registered player, with any count and value; the
\* call is recorded in query
BuyChipsOfValue ==
    \E player_name \in DOMAIN players, count \in BoughtCounts,
       value \in Denominations :
        LET r == Player_buy_chips(players[player_name], count, value)
        IN  /\ r.chips.count <= MaxStack
            /\ players' = [players EXCEPT ![player_name] = r.chips]
            /\ last' = Call("buy_chips", player_name, r.raised, TRUE)
            /\ query' = StackCall("buy_chips", player_name, {count}, {value},
                                  FALSE, r.raised)
            /\ UNCHANGED <<betting_rules, other_rules, active_bets, betting_open,
                           current_space, bet, aside>>

NextPlayer ==
    \/ AddPlayer
    \/ BuyChipsOfValue

SpecPlayer == Init /\ [][NextPlayer]_vars

-----------------------------------------------------------------------------
(* Callers inside place_bet.  A caller runs the checks of place_bet, up to  *)
(* the aggregate-limit check, and appends the bet afterwards.  In mode      *)
(* "atomic" a call is one step, as when the callers take turns; in mode     *)
(* "interleaved" the checks and the append are two steps, and another       *)
(* caller may run between them.                                             *)

Callers == {"c1", "c2"}

\* the bets the callers place: built without rules, so that place_bet
\* validates them against the Game's rule set
CallerBets ==
    {Bet_init("black", {"17"}, amount, FALSE, None).obj : amount \in 1..MaxAmount}

InitRace ==
    /\ betting_rules \in {StrictRules, OpenRules}
    /\ other_rules = OpenRules
    /\ players = EmptyDict
    /\ active_bets = <<>>
    /\ betting_open = TRUE
    /\ current_space = None
    /\ bet = NoBet
    /\ last = Call("Game", None, Ok, TRUE)
    /\ query = NoQuery
    /\ load = NoLoad
    /\ chip_stack = NoStack
    /\ \E mode \in {"atomic", "interleaved"} :
          threads = [mode |-> mode,
                     pc |-> [c \in Callers |-> "idle"],
                     bet |-> [c \in Callers |-> NoBet],
                     overlapped |-> FALSE]

\* place_bet, lines 135-156: the checks, which read the state; a caller whose
\* bet passes them stands before the append
PlaceBetCheck ==
    \E c \in Callers, b \in CallerBets :
        LET r == place_bet(b, None)
        IN  /\ threads.mode = "interleaved"
            /\ threads.pc[c] = "idle"
            /\ last' = Call("place_bet", None, r.raised, TRUE)
            /\ threads' =
                  IF r.raised # Ok THEN threads
                  ELSE [threads EXCEPT
                          !.pc[c] = "checked",
                          !.bet[c] = r.bet,
                          !.overlapped =
                              @ \/ \E d \in Callers \ {c} : threads.pc[d] = "checked"]
            /\ UNCHANGED <<betting_rules, other_rules, players, active_bets,
                           betting_open, current_space, bet, query, load, chip_stack>>

\* place_bet, line 159: the append of a caller whose bet passed the checks
PlaceBetAppend ==
    \E c \in Callers :
        /\ threads.mode = "interleaved"
        /\ threads.pc[c] = "checked"
        /\ active_bets' = Append(active_bets, threads.bet[c])
        /\ last' = Call("place_bet", None, Ok, TRUE)
        /\ threads' = [threads EXCEPT !.pc[c] = "idle", !.bet[c] = NoBet]
        /\ UNCHANGED <<betting_rules, other_rules, players, betting_open,
                       current_space, bet, query, load, chip_stack>>

\* place_bet as one step
PlaceBetAtomic ==
    \E c \in Callers, b \in CallerBets :
        LET r == place_bet(b, None)
        IN  /\ threads.mode = "atomic"
            /\ active_bets' = r.active_bets
            /\ last' = Call("place_bet", None, r.raised, TRUE)
            /\ UNCHANGED <<betting_rules, other_rules, players, betting_open,
                           current_space, bet, query, aside>>

NextRace ==
    \/ PlaceBetCheck
    \/ PlaceBetAppend
    \/ PlaceBetAtomic

SpecRace == InitRace /\ [][NextRace]_vars

-----------------------------------------------------------------------------
(* Properties of the Game (checked under Spec)                              *)

\* b meets the single-bet rules of the Game's own rule set
MeetsGameRules(b) ==
    /\ b.bet_type \in DOMAIN betting_rules.payout_ratios
    /\ b.amount >= get_minimum_bet(betting_rules, b.bet_type)
    /\ b.amount <= get_maximum_bet(betting_rules, b.bet_type)

\* place_bet(b, player_name) can fail on the aggregate limit only: b meets the
\* Game's rules and the player, if registered with chips, can pay it
OtherwiseValid(b, player_name) ==
    /\ MeetsGameRules(b)
    /\ ~(/\ player_name \in DOMAIN players
         /\ players[player_name].held
         /\ players[player_name].count < b.amount)

\* C1: in every reachable state the sum of the amounts of the active bets is
\* at most the table's maximum_total_bet.
C1_TotalWithinCeiling ==
    SumAmounts(active_bets) <= betting_rules.table_limits.maximum_total_bet

\* two accepted bets bring the total exactly to the ceiling
C1_Witness ==
    /\ last.op = "place_bet" /\ last.raised = Ok
    /\ Len(active_bets) = 2
    /\ SumAmounts(active_bets) = betting_rules.table_limits.maximum_total_bet

\* C2: with betting open, a place_bet of an otherwise valid bet is accepted
\* exactly when the current total plus its amount is at most maximum_total_bet,
\* and is rejected with the aggregate-limit error otherwise: a bet that brings
\* the total exactly to the ceiling is accepted, and at the ceiling every
\* further bet of positive amount gets the aggregate-limit error.
C2_AggregateCheck ==
    [][(/\ last'.op = "place_bet"
        /\ betting_open
        /\ OtherwiseValid(bet, last'.player))
       => LET currentTotal == SumAmounts(active_bets)
              ceiling == betting_rules.table_limits.maximum_total_bet
          IN  /\ (last'.raised = Ok) <=> (currentTotal + bet.amount <= ceiling)
              /\ last'.raised # Ok => last'.raised.msg = AggregateLimitError
              /\ last'.raised = Ok =>
                    SumAmounts(active_bets') = currentTotal + bet.amount
              /\ (currentTotal = ceiling /\ bet.amount > 0) =>
                    last'.raised.msg = AggregateLimitError]_vars

\* a bet of positive amount is turned away at the ceiling
C2_Witness ==
    /\ last.op = "place_bet"
    /\ last.raised.msg = AggregateLimitError
    /\ bet.amount > 0
    /\ MeetsGameRules(bet)
    /\ SumAmounts(active_bets) = betting_rules.table_limits.maximum_total_bet

\* C3: a place_bet that is rejected, whatever the reason, leaves the active
\* bets, their total, betting_open and every player's chips as they were.
C3_RejectionChangesNothing ==
    [][(last'.op = "place_bet" /\ last'.raised # Ok)
       => /\ active_bets' = active_bets
          /\ SumAmounts(active_bets') = SumAmounts(active_bets)
          /\ betting_open' = betting_open
          /\ players' = players]_vars

\* a bet is rejected on the aggregate limit while bets are pending and the
\* player who places it holds chips enough to pay it
C3_Witness ==
    /\ last.op = "place_bet"
    /\ last.raised.msg = AggregateLimitError
    /\ active_bets # <<>>
    /\ last.player \in DOMAIN players
    /\ players[last.player].held
    /\ players[last.player].count >= bet.amount
    /\ bet.amount > 0

\* C4: a place_bet that was rejected is rejected again when it is repeated
\* at once with the same bet object and the same player.
C4_RetryRejected ==
    [][(/\ last.op = "place_bet" /\ last.raised # Ok
        /\ last'.op = "place_bet" /\ last'.player = last.player)
       => last'.raised # Ok]_vars

\* C5: every bet place_bet has accepted meets the single-bet rules of the
\* Game's own rule set: its kind is offered and its amount is within the
\* limits of its kind, whatever rules the bet was built with.
C5_AcceptedBetsMeetGameRules ==
    \A i \in 1..Len(active_bets) : MeetsGameRules(active_bets[i])

\* C6: a game starts with betting open and no active bets; close_betting and
\* spin_wheel leave betting closed, and while betting_open is false every
\* place_bet raises 'Betting is closed'.
C6_ClosedBettingRejects ==
    /\ (betting_open = TRUE /\ active_bets = <<>>)
    /\ [][/\ (last'.op = "place_bet" /\ ~betting_open)
             => last'.raised = Raise("Betting is closed", <<>>)
          /\ last'.op \in {"close_betting", "spin_wheel"} => ~betting_open'
          /\ (~betting_open /\ betting_open') => last'.op = "open_betting"]_vars

\* a bet is turned away after the wheel was spun
C6_Witness ==
    /\ last.op = "place_bet"
    /\ last.raised = Raise("Betting is closed", <<>>)
    /\ ~betting_open
    /\ current_space # None

\* C7: open_betting, called in any state, leaves betting open and the list
\* of active bets empty.
C7_OpenBettingClears ==
    [][last'.op = "open_betting"
       => /\ betting_open'
          /\ active_bets' = <<>>
          /\ SumAmounts(active_bets') = 0]_vars

\* open_betting has cleared the bets of a round that was closed
C7_Witness ==
    /\ last.op = "open_betting"
    /\ betting_open
    /\ active_bets = <<>>
    /\ bet # NoBet
    /\ current_space # None

\* C10: is_bet_allowed(k) is true exactly when k is a key of payout_ratios;
\* for an absent k get_payout_ratio(k) fails, and with betting open a place_bet
\* of a bet of kind k is rejected as not offered, whatever its amount and
\* spaces.
C10_AbsentKindRejected ==
    [][/\ \A k \in BetType :
            /\ is_bet_allowed(betting_rules, k)
                    <=> k \in DOMAIN betting_rules.payout_ratios
            /\ k \notin DOMAIN betting_rules.payout_ratios
                    => get_payout_ratio(betting_rules, k).raised
       /\ (/\ last'.op = "place_bet"
           /\ betting_open
           /\ bet.bet_type \notin DOMAIN betting_rules.payout_ratios)
          => last'.raised.msg = NotOfferedError]_vars

\* C18: place_bet naming a registered player succeeds only if that player
\* holds at least bet.amount chips; when the player holds fewer, a registered
\* player who holds no chips at all (for whom can_afford_bet is false)
\* included, it raises the insufficient-chips error.
C18_ChipsRequired ==
    [][(last'.op = "place_bet" /\ last'.player \in DOMAIN players) =>
          /\ last'.raised = Ok =>
                can_afford_bet(players[last'.player], bet.amount)
          /\ (/\ betting_open
              /\ place_bet_validate(bet).raised = Ok
              /\ ~can_afford_bet(players[last'.player], bet.amount))
             => last'.raised.msg = "Player has insufficient chips"]_vars

\* C19: a successful place_bet naming a registered player who holds chips
\* appends exactly one bet to the active bets and lowers that player's chip
\* count by exactly bet.amount, leaving every other player's chips unchanged;
\* in every reachable state each player's chip count is >= 0.
C19_ChipsDeducted ==
    /\ [](\A p \in DOMAIN players : players[p].count >= 0)
    /\ [][(/\ last'.op = "place_bet"
           /\ last'.raised = Ok
           /\ last'.player \in DOMAIN players
           /\ HasChips(players[last'.player]))
          => /\ active_bets' = Append(active_bets, bet')
             /\ DOMAIN players' = DOMAIN players
             /\ players'[last'.player] =
                   [players[last'.player] EXCEPT !.count = @ - bet.amount]
             /\ \A q \in DOMAIN players \ {last'.player} :
                   players'[q] = players[q]]_vars

\* Alice staked her only chip on an accepted bet of 1 while Bob kept his
C19_Witness ==
    /\ last.op = "place_bet"
    /\ last.raised = Ok
    /\ last.player = "Alice"
    /\ {"Alice", "Bob"} \subseteq DOMAIN players
    /\ players["Alice"] = [held |-> TRUE, count |-> 0, value |-> 1]
    /\ players["Bob"].count = 1
    /\ active_bets # <<>>
    /\ active_bets[Len(active_bets)].amount = 1

\* C25: a bet accepted once is never later found invalid under the same
\* rules: after any sequence of successful place_bet calls in one round,
\* close_betting, which validates every pending bet and the batch total,
\* reports valid = true.
C25_AcceptedBetsStayValid ==
    [][last'.op = "close_betting" => last'.valid]_vars

\* C27: validating or placing a bet changes no field of the bet itself: after
\* a place_bet call, accepted or rejected, the bet's kind, covered spaces,
\* amount and attached rule set are the same as before the call.
C27_PlaceBetLeavesBet ==
    [][last'.op = "place_bet" =>
          /\ bet'.bet_type = bet.bet_type
          /\ bet'.spaces = bet.spaces
          /\ bet'.amount = bet.amount
          /\ bet'.betting_rules = bet.betting_rules]_vars

\* C28: close_betting sets the phase to closed and returns the batch
\* validation result without modifying the pending bets: the active-bet list,
\* the recorded total and all chip counts are the same after the call as
\* before it, also when the result is invalid.
C28_CloseBettingKeepsBets ==
    [][last'.op = "close_betting" =>
          /\ ~betting_open'
          /\ last'.raised = Ok
          /\ last'.valid = validate_multiple_bets(betting_rules, active_bets).valid
          /\ active_bets' = active_bets
          /\ SumAmounts(active_bets') = SumAmounts(active_bets)
          /\ players' = players]_vars

\* betting was closed over two pending bets, one of them invalid, while a
\* player holds chips
C28_Witness ==
    /\ last.op = "close_betting"
    /\ ~last.valid
    /\ ~betting_open
    /\ Len(active_bets) = 2
    /\ \E n \in DOMAIN players : players[n].count > 0

\* C29: the wheel is never spun while betting is open: spin_wheel called with
\* betting open first closes betting, and when that closing validation
\* reports invalid bets it raises without spinning (current_space unchanged);
\* after any successful spin_wheel betting is closed until open_betting is
\* called.
C29_NoSpinWhileOpen ==
    [][/\ last'.op = "spin_wheel" =>
             /\ ~betting_open'
             /\ (betting_open /\ ~validate_all_bets.valid) =>
                   /\ last'.raised # Ok
                   /\ current_space' = current_space
             /\ last'.raised = Ok =>
                   (~betting_open \/ validate_all_bets.valid)
       /\ current_space' # current_space =>
             (last'.op = "spin_wheel" /\ last'.raised = Ok /\ ~betting_open')
       /\ (last.op = "spin_wheel" /\ last.raised = Ok /\ betting_open') =>
             last'.op = "open_betting"]_vars

\* a spin was refused on a table whose wheel has not been spun yet, with
\* betting open beforehand and an invalid bet pending
C29_Witness ==
    /\ last.op = "spin_wheel"
    /\ last.raised # Ok
    /\ ~betting_open
    /\ current_space = None
    /\ active_bets # <<>>

-----------------------------------------------------------------------------
(* Properties of the rule-set queries and the Bet constructor (checked      *)
(* under SpecRules)                                                         *)

\* the ratio the configuration gives kind k in the map `ratios`: the entry of
\* k, else the 'global' entry, else 1.0
ConfiguredRatio(ratios, k) ==
    IF k \in DOMAIN ratios THEN ratios[k]
    ELSE IF "global" \in DOMAIN ratios THEN ratios["global"]
    ELSE Ratio(1, 1)

\* q = floor(m * r) for the fraction r
IsFloorOfProduct(q, m, r) ==
    q * r.den <= m * r.num /\ m * r.num < (q + 1) * r.den

\* the amount of the last query is outside the limits of its kind
QueryOutOfRange ==
    \/ query.amount < get_minimum_bet(betting_rules, query.bet_type)
    \/ query.amount > get_maximum_bet(betting_rules, query.bet_type)

\* the error that reports the amount of the last query and both bounds
QueryRangeError ==
    Raise(OutOfRangeError,
          <<query.amount, get_minimum_bet(betting_rules, query.bet_type),
            get_maximum_bet(betting_rules, query.bet_type)>>)

C11_CanonicalHouseEdge ==
    (query.op = "get_house_edge" /\ betting_rules.payout_ratios = DefaultPayouts)
        => /\ query.raised = Ok
           /\ query.value = IF betting_rules.table_type = "AMERICAN" THEN 526 ELSE 270

\* the edge of a six-line bet was asked on a EUROPEAN table with the default
\* payouts
C11_Witness ==
    /\ query.op = "get_house_edge"
    /\ query.bet_type = "six_line"
    /\ betting_rules.payout_ratios = DefaultPayouts
    /\ betting_rules.table_type = "EUROPEAN"
    /\ query.value = 270

\* the constructor of the last query rejected a covered space
InvalidSpaceRaised == query.raised.msg = "Invalid space value"

\* C17: space validation accepts a covered space exactly when it is a key of
\* the layout lookup or one of the house symbols "0" and "00"; the house
\* symbols are accepted on both table types, "00" on a EUROPEAN layout
\* included, and every other unknown identifier is rejected as an invalid
\* space.
C17_SpaceValidation ==
    (query.op = "Bet" /\ query.layout /\ query.amount > 0) =>
        /\ InvalidSpaceRaised <=>
              \E space_value \in query.spaces :
                  /\ space_value \notin LayoutLookup(betting_rules.table_type)
                  /\ space_value \notin {"0", "00"}
        /\ query.spaces \subseteq {"0", "00"} => ~InvalidSpaceRaised
        /\ "99" \in query.spaces => InvalidSpaceRaised

\* a straight-up bet on "00" was built with the layout of a EUROPEAN table
C17_Witness ==
    /\ query.op = "Bet"
    /\ query.layout
    /\ query.amount > 0
    /\ betting_rules.table_type = "EUROPEAN"
    /\ query.bet_type = "straight_up"
    /\ query.spaces = {"00"}
    /\ query.rules_ref = None
    /\ query.raised = Ok

\* the bet at position i of the batch of the last query fails single-bet
\* validation under the rule set
FailsSingleBetValidation(i) ==
    \/ query.bets[i].amount <= 0
    \/ Bet_validate_betting_rules(query.bets[i].bet_type, query.bets[i].amount,
                                  betting_rules) # Ok

\* the ceiling of a round, as configured
ConfiguredCeiling ==
    IF "maximum_total_bet" \in DOMAIN betting_rules.table_limits
    THEN betting_rules.table_limits.maximum_total_bet
    ELSE DefaultMaximumTotalBet

FirstViolatedCheck ==
    IF query.amount <= 0 THEN "Bet amount must be positive"
    ELSE IF query.bet_type \notin DOMAIN betting_rules.payout_ratios
    THEN NotOfferedError
    ELSE IF QueryOutOfRange THEN OutOfRangeError
    ELSE IF Bet_validate_bet_type_matches_spaces(query.bet_type, query.spaces) # Ok
    THEN Bet_validate_bet_type_matches_spaces(query.bet_type, query.spaces).msg
    ELSE IF ~(query.spaces \subseteq
                LayoutLookup(betting_rules.table_type) \cup {"0", "00"})
    THEN "Invalid space value"
    ELSE Ok.msg

\* C26: single-bet validation applies its checks in the order amount
\* positive, kind offered, amount within range, arity of covered spaces,
\* known spaces: when a bet built with both a layout and rules violates
\* several checks at once, the failure reported is that of the first violated
\* check in this order.
C26_OrderOfChecks ==
    (query.op = "Bet" /\ query.layout /\ query.rules_ref = "game") =>
        query.raised.msg = FirstViolatedCheck

-----------------------------------------------------------------------------
(* Properties of the construction of a BettingRules object (checked under   *)
(* SpecConfig)                                                              *)

\* the overlay of the construction names section s, key k
OverlayNames(s, k) ==
    /\ load.overlay.given
    /\ s \in DOMAIN load.overlay.doc
    /\ load.overlay.doc[s].dict
    /\ k \in DOMAIN load.overlay.doc[s].items

\* the overlay of the construction names section s
OverlayNamesSection(s) ==
    load.overlay.given /\ s \in DOMAIN load.overlay.doc

\* the base file of the construction holds section s, key k
BaseHolds(s, k) ==
    /\ s \in DOMAIN load.file.doc
    /\ load.file.doc[s].dict
    /\ k \in DOMAIN load.file.doc[s].items

\* the rule set built holds section s, key k
ConfigHolds(s, k) ==
    /\ s \in DOMAIN load.config
    /\ load.config[s].dict
    /\ k \in DOMAIN load.config[s].items

\* C12 as stated: the resolved value of section s, key k is the overlay's
\* value when the overlay names s.k and the base's value otherwise; sections
\* and keys the overlay does not name are equal to the base, so an empty
\* overlay yields a rule set identical to the base.
C12_Original ==
    load.phase = "built" =>
        /\ \A s \in Sections :
            /\ ~OverlayNamesSection(s) =>
                  /\ s \in DOMAIN load.config <=> s \in DOMAIN load.file.doc
                  /\ s \in DOMAIN load.config => load.config[s] = load.file.doc[s]
            /\ \A k \in SectionKeys :
                /\ OverlayNames(s, k) =>
                      /\ ConfigHolds(s, k)
                      /\ load.config[s].items[k] = load.overlay.doc[s].items[k]
                /\ (~OverlayNames(s, k) /\ BaseHolds(s, k)) =>
                      /\ ConfigHolds(s, k)
                      /\ load.config[s].items[k] = load.file.doc[s].items[k]
                /\ ConfigHolds(s, k) => (OverlayNames(s, k) \/ BaseHolds(s, k))
        /\ (~load.overlay.given \/ DOMAIN load.overlay.doc = {}) =>
              load.config = load.file.doc

\* C12: the resolved value of section s, key k is the overlay's value when the
\* overlay names s.k; it is the base's value when the overlay does not name
\* s.k and does not give s a value that is not a map; an overlay value for s
\* that is not a map replaces the whole section.  Sections the overlay does
\* not name are equal to the base, so an empty overlay yields a rule set
\* identical to the base.
C12_OverlayMerge ==
    load.phase = "built" =>
        /\ \A s \in Sections :
            /\ ~OverlayNamesSection(s) =>
                  /\ s \in DOMAIN load.config <=> s \in DOMAIN load.file.doc
                  /\ s \in DOMAIN load.config => load.config[s] = load.file.doc[s]
            /\ (OverlayNamesSection(s) /\ ~load.overlay.doc[s].dict) =>
                  load.config[s] = load.overlay.doc[s]
            /\ \A k \in SectionKeys :
                /\ OverlayNames(s, k) =>
                      /\ ConfigHolds(s, k)
                      /\ load.config[s].items[k] = load.overlay.doc[s].items[k]
                /\ (/\ ~OverlayNames(s, k) /\ BaseHolds(s, k)
                    /\ OverlayNamesSection(s) => load.overlay.doc[s].dict) =>
                      /\ ConfigHolds(s, k)
                      /\ load.config[s].items[k] = load.file.doc[s].items[k]
                /\ ConfigHolds(s, k) => (OverlayNames(s, k) \/ BaseHolds(s, k))
        /\ (~load.overlay.given \/ DOMAIN load.overlay.doc = {}) =>
              load.config = load.file.doc

\* the overlay {payout_ratios: {straight_up: 40}} on a complete base changed
\* that key and left the payout of red and the other sections as they were
C12_Witness ==
    /\ load.phase = "built"
    /\ load.overlay.given
    /\ DOMAIN load.overlay.doc = {"payout_ratios"}
    /\ load.overlay.doc["payout_ratios"].dict
    /\ load.config["payout_ratios"].items["straight_up"] = 40
    /\ load.config["payout_ratios"].items["red"] = 1
    /\ load.config["table_limits"] = load.file.doc["table_limits"]

\* C13: a base file that lacks one of the four required sections loads
\* successfully when the overlay supplies the missing section: the
\* construction succeeds whenever the file exists, is not empty, and base and
\* overlay together hold the four sections.
C13_ValidationAfterMerge ==
    (/\ load.phase \in {"built", "failed"}
     /\ load.file.exists
     /\ DOMAIN load.file.doc # {}
     /\ \A s \in RequiredSections :
            s \in DOMAIN load.file.doc \/ OverlayNamesSection(s))
        => load.phase = "built"

\* C14: the construction fails whenever the file is missing or empty or the
\* configuration after the merge lacks one of the four required sections;
\* every BettingRules object built has the four sections.
C14_NoPartialRuleSet ==
    /\ (/\ load.phase \in {"built", "failed"}
        /\ \/ ~load.file.exists
           \/ DOMAIN load.file.doc = {}
           \/ \E s \in RequiredSections :
                 s \notin DOMAIN load.file.doc /\ ~OverlayNamesSection(s))
          => (load.phase = "failed" /\ load.raised # Ok)
    /\ load.phase = "built" => RequiredSections \subseteq DOMAIN load.config

\* a construction failed on a file that lacks table_limits alone, the overlay
\* naming other sections
C14_Witness ==
    /\ load.phase = "failed"
    /\ load.file.exists
    /\ DOMAIN load.file.doc = Sections \ {"table_limits"}
    /\ load.overlay.given
    /\ "payout_ratios" \in DOMAIN load.overlay.doc
    /\ "table_limits" \notin DOMAIN load.overlay.doc
    /\ load.raised.msg = "Missing required configuration sections"

-----------------------------------------------------------------------------
(* Properties of the outcome of a bet (checked under SpecBet) *)

\* the payout ratio of the bet of the last query: that of the rule set attached
\* to it, or of the default table when none is attached
PayoutRatioOfBet ==
    IF query.bet.betting_rules # None
    THEN Deref(query.bet.betting_rules).payout_ratios[query.bet.bet_type]
    ELSE DefaultPayouts[query.bet.bet_type]

RedNumbers == {1, 3, 5, 7, 9, 12, 14, 16, 18, 19, 21, 23, 25, 27, 30, 32, 34, 36}

\* pocket n of 1..36 satisfies the fixed predicate of an outside kind
SatisfiesKind(bet_type, n) ==
    IF bet_type = "red" THEN n \in RedNumbers
    ELSE IF bet_type = "black" THEN n \notin RedNumbers
    ELSE IF bet_type = "odd" THEN n % 2 = 1
    ELSE IF bet_type = "even" THEN n % 2 = 0
    ELSE IF bet_type = "high" THEN n \in 19..36
    ELSE IF bet_type = "low" THEN n \in 1..18
    ELSE IF bet_type = "first_dozen" THEN n \in 1..12
    ELSE IF bet_type = "second_dozen" THEN n \in 13..24
    ELSE IF bet_type = "third_dozen" THEN n \in 25..36
    ELSE IF bet_type = "first_column" THEN n % 3 = 1
    ELSE IF bet_type = "second_column" THEN n % 3 = 2
    ELSE n % 3 = 0

\* C16: for every bet of an outside kind, whatever spaces the caller passed at
\* construction, is_winning_bet is false when the ball lands on 0 or 00 and,
\* for a pocket 1..36, true exactly when the pocket satisfies the fixed
\* predicate of the kind.
C16_OutsideBetsIgnoreSpaces ==
    (query.op = "is_winning_bet" /\ query.bet.bet_type \in OutsideBets) =>
        IF query.winning_space.value \in {"0", "00"}
        THEN ~query.flag
        ELSE query.flag <=>
                SatisfiesKind(query.bet.bet_type, PocketInt(query.winning_space.value))

-----------------------------------------------------------------------------
(* Properties of a Chips stack (checked under SpecChips) *)

\* the step is a call that takes more chips off its stack than the stack holds
RemovesTooMany ==
    /\ chip_stack'.call.op \in {"change_chips", "add_chips"}
    /\ ~chip_stack'.call.merged
    /\ chip_stack'.call.count # {}
    /\ chip_stack.stacks[chip_stack'.call.target].count
          + Some(chip_stack'.call.count) < 0

\* C20: after any sequence of change_chips / add_chips calls on a Chips stack,
\* count >= 0; a call that would remove more chips than the stack holds raises
\* and leaves count and value unchanged.
C20_ChipsNeverNegative ==
    /\ [](\A n \in StackNames : chip_stack.stacks[n].count >= 0)
    /\ [][RemovesTooMany =>
             /\ chip_stack'.call.raised =
                   Raise("There are not enough chips available", <<>>)
             /\ chip_stack'.stacks = chip_stack.stacks]_vars

\* two chips were asked back from a stack that holds one chip of value 5
C20_Witness ==
    /\ chip_stack.call.op = "change_chips"
    /\ chip_stack.call.target = "mine"
    /\ chip_stack.call.count = {-2}
    /\ ~chip_stack.call.merged
    /\ chip_stack.call.raised = Raise("There are not enough chips available", <<>>)
    /\ chip_stack.stacks["mine"] = [count |-> 1, value |-> {5}]

\* the stack the call of this step is made on, before the call
CalledStack == chip_stack.stacks[chip_stack'.call.target]

\* the other stack, which a merging call passes as chips
PassedStack ==
    chip_stack.stacks[CHOOSE n \in StackNames : n # chip_stack'.call.target]

\* the step is a call of change_chips or add_chips
IsStackCall == chip_stack'.call.op \in {"change_chips", "add_chips"}

\* a value a stack has is the value it keeps, and a merge is accepted exactly
\* when the two values are equal
ValueKeptAndMergeByValue ==
    /\ \A n \in StackNames :
          chip_stack.stacks[n].value # {} =>
              chip_stack'.stacks[n].value = chip_stack.stacks[n].value
    /\ (IsStackCall /\ chip_stack'.call.merged) =>
          (chip_stack'.call.raised = Ok <=> CalledStack.value = PassedStack.value)

-----------------------------------------------------------------------------
(* Properties of the players' purchases (checked under SpecPlayer) *)

\* C22: Player.buy_chips raises when a player who already holds chips buys
\* chips with a value different from the value of the chips they hold, and
\* then leaves the player's chip count unchanged.
C22_BuyAtOtherValueRaises ==
    [][(/\ last'.op = "buy_chips"
        /\ HasChips(players[last'.player])
        /\ players[last'.player].count > 0
        /\ query'.value # {players[last'.player].value})
       => /\ last'.raised # Ok
          /\ players'[last'.player].count = players[last'.player].count]_vars

\* C24: add_player rejects a name that is already registered and leaves the
\* player map unchanged; after any sequence of add_player calls the map holds
\* exactly one Player per distinct accepted name.
C24_OnePlayerPerName ==
    [][/\ last'.op = "add_player" =>
             IF last'.player \in DOMAIN players
             THEN /\ last'.raised # Ok
                  /\ players' = players
             ELSE /\ last'.raised = Ok
                  /\ DOMAIN players' = DOMAIN players \cup {last'.player}
                  /\ players'[last'.player] = NoChips
                  /\ \A n \in DOMAIN players : players'[n] = players[n]
       /\ DOMAIN players' # DOMAIN players =>
             (last'.op = "add_player" /\ last'.raised = Ok)]_vars

\* Alice, who holds two chips, was added a second time while Bob is registered
C24_Witness ==
    /\ last.op = "add_player"
    /\ last.player = "Alice"
    /\ last.raised # Ok
    /\ DOMAIN players = {"Alice", "Bob"}
    /\ players["Alice"].count = 2

-----------------------------------------------------------------------------
(* Properties of concurrent callers of place_bet (checked under SpecRace) *)

\* C30: if two place_bet calls on the same table run concurrently without
\* serialization, so that the aggregate-ceiling check of each and its append
\* are separate steps, both can pass the check before either bet is recorded
\* and the recorded total then exceeds maximum_total_bet; when each place_bet
\* is a single atomic check-then-append step that state is unreachable.
C30_RaceOnlyWhenInterleaved ==
    /\ threads.mode = "atomic" =>
          SumAmounts(active_bets) <= get_maximum_total_bet(betting_rules)
    /\ SumAmounts(active_bets) > get_maximum_total_bet(betting_rules) =>
          (threads.mode = "interleaved" /\ threads.overlapped)

\* two callers passed the check before either bet was recorded, and the
\* recorded total exceeds the ceiling
C30_Witness ==
    /\ threads.mode = "interleaved"
    /\ threads.overlapped
    /\ \A c \in Callers : threads.pc[c] = "idle"
    /\ SumAmounts(active_bets) > get_maximum_total_bet(betting_rules)

====
